---- MODULE Spec2Model ----
(***************************************************************************)
(* HashMap2 of simplehstore: a map of maps (owner -> key -> value) kept in *)
(* one KeyValue table under the composite key owner + fieldSep + key, and  *)
(* a Set table of every property key encountered.  Several handles bound   *)
(* to the same base name share both tables.                                *)
(*                                                                         *)
(* Strings are sequences of one-character strings, so that concatenation,  *)
(* strings.Contains and strings.Index are computed, not assumed.           *)
(***************************************************************************)
EXTENDS Integers, Sequences, FiniteSets, TLC

\* ------------------------------------------------------------------ bounds
\* Calls started in one behaviour.
MaxCalls == 3
\* Calls started in one behaviour when two handles are interleaved.
MaxConcCalls == 2
\* Keys in the map given to one SetMap call.
MaxMapLen == 2
\* (owner, key, value) triples in the map given to one SetLargeMap call.
MaxLargeLen == 2
\* Keys in the list given to one GetMap call.
MaxGetLen == 2

\* ------------------------------------------------------------ the alphabet
\* const fieldSep = "¤" (one character of the alphabet stands for it)
fieldSep == "%"

\* Handles built by NewHashMap2 with the same name: they share both tables.
Handles == {1, 2}

OwnerIds == {<<"a">>, <<"b">>, <<"a", fieldSep>>}
PropKeys == {<<"p">>, <<"q">>, <<fieldSep, "p">>}
Values == {<<>>, <<"v">>}

\* The owners and keys a SetLargeMap call may be given
LargeOwnerIds == {<<"a">>, <<"a", fieldSep>>}
LargeKeys == {<<"p">>, <<fieldSep, "p">>}

\* The base name both structures are built from (sameName in TestHash2KvMix)
sameName == <<"n">>

\* name+"_properties_HSTORE_map" and name+"_encountered_property_keys"
\* (two characters stand for each suffix)
propertiesName(name) == name \o <<"_", "m">>
seenPropName(name) == name \o <<"_", "k">>

\* The table NewKeyValue / NewSet gives the structure of a name: a fixed
\* prefix for the kind of structure, then the name
KeyValueTable(name) == <<"K">> \o name
SetTable(name) == <<"S">> \o name

\* NewHashMap2 with the suffix of the properties table left out
table_NoSuffix == KeyValueTable(sameName)

\* hm2.table and hm2.seenPropTable, as NewHashMap2(host, sameName) sets them
table == KeyValueTable(propertiesName(sameName))
seenPropTable == SetTable(seenPropName(sameName))

\* kv.table of kv := NewKeyValue(host, sameName)
kvTable == KeyValueTable(sameName)

\* The keys given to the plain KeyValue: one looks like a composite key
PlainKeys == {<<"a", fieldSep, "p">>}

NoKey == <<"-">>
EmptyMap == << >>

\* ------------------------------------------------------- string functions
\* A test for the separator at the start of s only
Contains_PrefixOnly(s) == s # <<>> /\ s[1] = fieldSep

\* strings.Contains(s, fieldSep)
Contains(s) == \E i \in 1..Len(s) : s[i] = fieldSep

\* strings.Index(s, fieldSep): position of the first separator, counted
\* from 0, or -1
Index(s) ==
    IF Contains(s)
    THEN (CHOOSE i \in 1..Len(s) :
             s[i] = fieldSep /\ \A j \in 1..(i - 1) : s[j] # fieldSep) - 1
    ELSE -1

\* owner + fieldSep + key
CompositeKey(owner, key) == owner \o <<fieldSep>> \o key

\* Encode(&value) and its inverse applied by KeyValue.Get: a reversible
\* encoding that is not the identity (the encoded text is never the raw one)
Encode(value) == <<"#">> \o value

Decode(stored) ==
    IF stored # <<>> /\ Head(stored) = "#" THEN Tail(stored) ELSE stored


\* ------------------------------------------------------------------- state
VARIABLES
    data,      \* the KeyValue table: composite key -> stored text (committed rows)
    props,     \* the Set table: every property key encountered
    rawUTF8,   \* host.rawUTF8: values are stored as they are, without Encode
    pc,        \* where each handle's current call stands
    args,      \* the arguments of each handle's current (or last) call
    todo,      \* what the call's loop has not visited yet
    snap,      \* allProperties / props: the PropSet().All() read at the call's start
    cur,       \* the key of the loop iteration under way
    tx,        \* the writes issued in the call's open transaction, not yet committed
    ret,       \* what the handle's last call returned
    left,      \* calls that may still be started
    plain,     \* the table of the plain KeyValue built from the same name
    results,   \* results: the map GetMap fills and returns
    txn        \* the transaction of the handle's current (or last) call:
               \* none begun, open, or how it was ended

vars == <<data, props, rawUTF8, pc, args, todo, snap, cur, tx, ret, left, plain,
          results, txn>>

\* What a call hands back, and the state of its transaction
returned == <<ret, results, txn>>

\* The Host: its rawUTF8 setting and the tables of its database that are not
\* HashMap2's
host == <<rawUTF8, plain>>

shared == <<data, props, host>>

NoArgs == [op |-> "none"]

\* A table that is created and holds no row
NoTable == [rows |-> EmptyMap, dropped |-> FALSE]

Init ==
    /\ data = EmptyMap
    /\ props = {}
    /\ rawUTF8 \in BOOLEAN
    /\ pc = [h \in Handles |-> "idle"]
    /\ args = [h \in Handles |-> NoArgs]
    /\ todo = [h \in Handles |-> {}]
    /\ snap = [h \in Handles |-> {}]
    /\ cur = [h \in Handles |-> NoKey]
    /\ tx = [h \in Handles |-> EmptyMap]
    /\ ret = [h \in Handles |-> "none"]
    /\ left = MaxCalls
    /\ plain = NoTable
    /\ results = [h \in Handles |-> EmptyMap]
    /\ txn = [h \in Handles |-> "none"]

\* ------------------------------------------------------ the backing tables
\* Stored with the test of host.rawUTF8 inverted
Stored_Inverted(value) == IF rawUTF8 THEN Encode(value) ELSE value

\* The text a write stores for value: Encode(&value) unless host.rawUTF8
Stored(value) == IF rawUTF8 THEN value ELSE Encode(value)

\* The rows t after writing text under key c (an upsert: the last write wins)
Put(t, c, text) ==
    [x \in (DOMAIN t) \cup {c} |-> IF x = c THEN text ELSE t[x]]

\* The rows d after the writes of transaction t take effect, all at once
Apply(d, t) ==
    [x \in (DOMAIN d) \cup (DOMAIN t) |-> IF x \in DOMAIN t THEN t[x] ELSE d[x]]

\* The rows d without the row of key c (no row: nothing changes)
Without(d, c) == [x \in (DOMAIN d) \ {c} |-> d[x]]

\* KeyValue.Get(key): the value, decoded unless host.rawUTF8, or no result
KVGet(c) ==
    IF c \in DOMAIN data
    THEN [err |-> "none", val |-> IF rawUTF8 THEN data[c] ELSE Decode(data[c])]
    ELSE [err |-> "notfound", val |-> <<>>]

\* noResult(err)
noResult(err) == err = "notfound"

\* ---------------------------------------------------------------- queries
\* Get that reports a missing row as an empty value, without error
Get_EmptyOnMissing(owner, key) ==
    IF KVGet(CompositeKey(owner, key)).err = "notfound"
    THEN [err |-> "none", val |-> <<>>]
    ELSE KVGet(CompositeKey(owner, key))

Get(owner, key) == KVGet(CompositeKey(owner, key))

\* Has, from the result r of its KeyValue.Get
HasOf(r) ==
    IF r.err # "none"
    THEN IF noResult(r.err)
         THEN [found |-> FALSE, err |-> "none"]
         ELSE [found |-> FALSE, err |-> r.err]
    ELSE IF r.val = <<>>
         THEN [found |-> FALSE, err |-> "none"]
         ELSE [found |-> TRUE, err |-> "none"]

Has(owner, key) == HasOf(Get(owner, key))

Exists(owner) ==
    \E key \in props : Has(owner, key).err = "none" /\ Has(owner, key).found

Keys(owner) ==
    {key \in props : Has(owner, key).err = "none" /\ Has(owner, key).found}

AllEncounteredKeys == props

\* All that cuts each composite key at its last separator
All_LastSeparator ==
    {SubSeq(c, 1, (CHOOSE i \in 1..Len(c) :
                      c[i] = fieldSep /\ \A j \in (i + 1)..Len(c) : c[j] # fieldSep) - 1)
        : c \in {x \in DOMAIN data : Index(x) # -1}}

\* All: the distinct texts before the first separator of each composite key
All ==
    {SubSeq(c, 1, Index(c)) : c \in {x \in DOMAIN data : Index(x) # -1}}

\* Count as the number of rows: return hm2.KeyValue().Count()
Count_Rows == Cardinality(DOMAIN data)

Count == Cardinality(All)

\* The loop of AllWhere over the owners All() returned, in the order it
\* returned them: an owner is appended when Get gives value without error
RECURSIVE AllWhereLoop(_, _, _)
AllWhereLoop(allOwners, key, value) ==
    IF allOwners = {}
    THEN <<>>
    ELSE LET owner == CHOOSE x \in allOwners : TRUE
             found == AllWhereLoop(allOwners \ {owner}, key, value)
         IN  IF Get(owner, key).err = "none" /\ Get(owner, key).val = value
             THEN <<owner>> \o found
             ELSE found

\* AllWhere that keeps an owner whenever the value matches, error or not
AllWhere_IgnoresErr(key, value) ==
    LET RECURSIVE Loop(_)
        Loop(allOwners) ==
            IF allOwners = {}
            THEN <<>>
            ELSE LET owner == CHOOSE x \in allOwners : TRUE
                 IN  IF Get(owner, key).val = value
                     THEN <<owner>> \o Loop(allOwners \ {owner})
                     ELSE Loop(allOwners \ {owner})
    IN  Loop(All)

\* AllWhere(key, value): foundOwners
AllWhere(key, value) == AllWhereLoop(All, key, value)

\* ------------------------------------------------- queries, reads failing
\* The reads of the backing store that fail during one query: rows is the
\* set of composite keys whose KeyValue().Get fails, list says that the
\* listing the query starts with (PropSet().All(), KeyValue().All()) fails
NoFailure == [rows |-> {}, list |-> FALSE]

\* hm2.KeyValue().Get(owner + fieldSep + key) under the failures f
GetRead(owner, key, f) ==
    IF CompositeKey(owner, key) \in f.rows
    THEN [err |-> "store", val |-> <<>>]
    ELSE Get(owner, key)

HasRead(owner, key, f) == HasOf(GetRead(owner, key, f))

\* Exists under the failures f: [found, err]. The loop goes on after a
\* key whose Has gives an error and returns true at a key that is found
ExistsRead(owner, f) ==
    IF f.list
    THEN [found |-> FALSE, err |-> "store"]
    ELSE [found |-> \E key \in props :
                        /\ HasRead(owner, key, f).err = "none"
                        /\ HasRead(owner, key, f).found,
          err |-> "none"]

\* Keys under the failures f: [keys, err]
KeysRead(owner, f) ==
    IF f.list
    THEN [keys |-> {}, err |-> "store"]
    ELSE [keys |-> {key \in props :
                        /\ HasRead(owner, key, f).err = "none"
                        /\ HasRead(owner, key, f).found},
          err |-> "none"]

\* AllWhere under the failures f: [owners, err]
AllWhereRead(key, value, f) ==
    IF f.list
    THEN [owners |-> {}, err |-> "store"]
    ELSE [owners |-> {owner \in All :
                          /\ GetRead(owner, key, f).err = "none"
                          /\ GetRead(owner, key, f).val = value},
          err |-> "none"]

\* ------------------------------------------------------------ call returns
\* The call of handle h returns status and the map res, its transaction
\* being in state end: its locals are gone, and so are the writes buffered
\* in the transaction
Return(h, status, res, end) ==
    /\ pc' = [pc EXCEPT ![h] = "idle"]
    /\ ret' = [ret EXCEPT ![h] = status]
    /\ results' = [results EXCEPT ![h] = res]
    /\ txn' = [txn EXCEPT ![h] = end]
    /\ todo' = [todo EXCEPT ![h] = {}]
    /\ snap' = [snap EXCEPT ![h] = {}]
    /\ cur' = [cur EXCEPT ![h] = NoKey]
    /\ tx' = [tx EXCEPT ![h] = EmptyMap]
    /\ args' = [args EXCEPT ![h] = NoArgs]

\* The call of handle h returns status, and nothing else, on a path that
\* ends no transaction: none was begun, or Commit or Rollback is not called
Finish(h, status) == Return(h, status, EmptyMap, txn[h])

\* A call of handle h returns status before it begins a transaction
Fail(h, status) == Return(h, status, EmptyMap, "none")

\* A call of handle h starts
Start(h) ==
    /\ pc[h] = "idle"
    /\ left > 0
    /\ left' = left - 1

\* The call of handle h goes on at label, with arguments a, no transaction
\* begun so far
Enter(h, label, a) ==
    /\ pc' = [pc EXCEPT ![h] = label]
    /\ args' = [args EXCEPT ![h] = a]
    /\ ret' = [ret EXCEPT ![h] = "none"]
    /\ results' = [results EXCEPT ![h] = EmptyMap]
    /\ txn' = [txn EXCEPT ![h] = "none"]

\* The same after hm2.host.db.BeginTx(ctx, nil) succeeded
EnterTx(h, label, a) ==
    /\ pc' = [pc EXCEPT ![h] = label]
    /\ args' = [args EXCEPT ![h] = a]
    /\ ret' = [ret EXCEPT ![h] = "none"]
    /\ results' = [results EXCEPT ![h] = EmptyMap]
    /\ txn' = [txn EXCEPT ![h] = "open"]

\* The maps a SetMap call may be given, the empty one included
Maps ==
    UNION {[ks -> Values] : ks \in {x \in SUBSET PropKeys :
                                      Cardinality(x) \in 0..MaxMapLen}}

\* transaction.Rollback(); return err: the writes of the transaction are dropped
Rollback_Commits(h, status) ==
    /\ data' = Apply(data, tx[h])
    /\ Return(h, status, EmptyMap, "rolledback")

Rollback(h, status) ==
    /\ UNCHANGED data
    /\ Return(h, status, EmptyMap, "rolledback")

\* A write of text under composite key c inside the transaction of h: the
\* table keeps its rows until the transaction commits
TxWrite_NoTx(h, c, text) ==
    /\ data' = Put(data, c, text)
    /\ UNCHANGED tx

TxWrite(h, c, text) ==
    /\ tx' = [tx EXCEPT ![h] = Put(@, c, text)]
    /\ UNCHANGED data

\* ------------------------------------------------------------------ SetMap
\* SetMap, up to the loop: read the property set, begin the transaction
SetMapCall(h, owner, m) ==
    /\ Start(h)
    /\ UNCHANGED shared
    /\ \/ Fail(h, "store")                      \* propset.All() fails
       \/ Fail(h, "tx")                         \* BeginTx fails
       \/ /\ EnterTx(h, "sm_loop", [op |-> "SetMap", owner |-> owner, m |-> m])
          /\ todo' = [todo EXCEPT ![h] = DOMAIN m]
          /\ snap' = [snap EXCEPT ![h] = props]
          /\ UNCHANGED <<cur, tx>>

\* Set(owner, key, value) is SetMap(owner, {key: value})
Set(h, owner, key, value) ==
    SetMapCall(h, owner, [k \in {key} |-> value])

\* An iteration that adds the key to the property set before the separator
\* check instead of after it
SetMapStep_AddsBeforeCheck(h) ==
    /\ pc[h] = "sm_loop"
    /\ UNCHANGED <<host, left>>
    /\ \E k \in todo[h] :
         LET owner == args[h].owner
             value == args[h].m[k]
         IN  IF Contains(owner) \/ Contains(k)
             THEN /\ Rollback(h, "validation")
                  /\ props' = props \cup {k}
             ELSE \/ /\ Rollback(h, "store")
                     /\ UNCHANGED props
                  \/ /\ props' = props \cup {k}
                     /\ Rollback(h, "store")
                  \/ /\ props' = props \cup {k}
                     /\ TxWrite(h, CompositeKey(owner, k), Stored(value))
                     /\ IF k \in snap[h]
                        THEN /\ todo' = [todo EXCEPT ![h] = @ \ {k}]
                             /\ UNCHANGED <<pc, cur>>
                        ELSE /\ pc' = [pc EXCEPT ![h] = "sm_add"]
                             /\ cur' = [cur EXCEPT ![h] = k]
                             /\ UNCHANGED todo
                     /\ UNCHANGED <<args, snap, returned>>

\* One iteration of SetMap's loop, up to the return of
\* setPropWithTransaction: the separator check, PropSet().Add(key) outside
\* the transaction, the write inside it
SetMapStep(h) ==
    /\ pc[h] = "sm_loop"
    /\ UNCHANGED <<host, left>>
    /\ \E k \in todo[h] :
         LET owner == args[h].owner
             value == args[h].m[k]
         IN  IF Contains(owner) \/ Contains(k)
             THEN /\ Rollback(h, "validation")
                  /\ UNCHANGED props
             ELSE \/ /\ Rollback(h, "store")                 \* Add fails
                     /\ UNCHANGED props
                  \/ /\ props' = props \cup {k}              \* the write fails
                     /\ Rollback(h, "store")
                  \/ /\ props' = props \cup {k}
                     /\ TxWrite(h, CompositeKey(owner, k), Stored(value))
                     /\ IF k \in snap[h]
                        THEN /\ todo' = [todo EXCEPT ![h] = @ \ {k}]
                             /\ UNCHANGED <<pc, cur>>
                        ELSE /\ pc' = [pc EXCEPT ![h] = "sm_add"]
                             /\ cur' = [cur EXCEPT ![h] = k]
                             /\ UNCHANGED todo
                     /\ UNCHANGED <<args, snap, returned>>

\* The rest of the iteration: propset.Add(k) for a key that was not in
\* allProperties
SetMapAdd(h) ==
    /\ pc[h] = "sm_add"
    /\ UNCHANGED <<host, left>>
    /\ \/ /\ Rollback(h, "store")                            \* Add fails
          /\ UNCHANGED props
       \/ /\ props' = props \cup {cur[h]}
          /\ todo' = [todo EXCEPT ![h] = @ \ {cur[h]}]
          /\ cur' = [cur EXCEPT ![h] = NoKey]
          /\ pc' = [pc EXCEPT ![h] = "sm_loop"]
          /\ UNCHANGED <<data, args, snap, tx, returned>>

\* A commit that appends the written text to the text of an existing row
\* instead of replacing it
SetMapCommit_Appends(h) ==
    /\ pc[h] = "sm_loop"
    /\ todo[h] = {}
    /\ UNCHANGED <<props, host, left>>
    /\ data' = [x \in (DOMAIN data) \cup (DOMAIN tx[h]) |->
                  IF x \notin DOMAIN tx[h] THEN data[x]
                  ELSE IF x \in DOMAIN data THEN data[x] \o tx[h][x]
                  ELSE tx[h][x]]
    /\ Return(h, "ok", EmptyMap, "committed")

\* A commit that replaces the table by the rows written in the transaction
SetMapCommit_Replaces(h) ==
    /\ pc[h] = "sm_loop"
    /\ todo[h] = {}
    /\ UNCHANGED <<props, host, left>>
    /\ data' = tx[h]
    /\ Return(h, "ok", EmptyMap, "committed")

\* A commit that keeps the rows that are already there: the first write wins
SetMapCommit_KeepsExisting(h) ==
    /\ pc[h] = "sm_loop"
    /\ todo[h] = {}
    /\ UNCHANGED <<props, host, left>>
    /\ data' = Apply(tx[h], data)
    /\ Return(h, "ok", EmptyMap, "committed")

\* return transaction.Commit()
SetMapCommit(h) ==
    /\ pc[h] = "sm_loop"
    /\ todo[h] = {}
    /\ UNCHANGED <<props, host, left>>
    /\ \/ /\ data' = Apply(data, tx[h])
          /\ Return(h, "ok", EmptyMap, "committed")
       \/ /\ Return(h, "tx", EmptyMap, "failed")        \* Commit fails
          /\ UNCHANGED data

\* ------------------------------------------------------------- SetLargeMap
\* The maps a SetLargeMap call may be given: owner -> key -> value, as a
\* function of the (owner, key) pairs it holds
LargeMaps ==
    UNION {[ps -> Values] : ps \in {x \in SUBSET (LargeOwnerIds \X LargeKeys) :
                                      Cardinality(x) \in 1..MaxLargeLen}}

\* SetLargeMap that collects no new property: newProps stays empty
SetLargeMapCall_NoNewProps(h, big) ==
    /\ Start(h)
    /\ UNCHANGED shared
    /\ \/ Fail(h, "store")
       \/ /\ Enter(h, "slm_add", [op |-> "SetLargeMap", m |-> big])
          /\ todo' = [todo EXCEPT ![h] = {}]
          /\ UNCHANGED <<snap, cur, tx>>

\* SetLargeMap, up to the loop that stores the new properties: read the
\* property set, collect the keys of the map that are not in it
SetLargeMapCall(h, big) ==
    /\ Start(h)
    /\ UNCHANGED shared
    /\ \/ Fail(h, "store")                                 \* All() fails
       \/ /\ Enter(h, "slm_add", [op |-> "SetLargeMap", m |-> big])
          /\ todo' = [todo EXCEPT ![h] =
                        {p[2] : p \in DOMAIN big} \ props]   \* newProps
          /\ UNCHANGED <<snap, cur, tx>>

\* One iteration of the loop over newProps: propSet.Add(prop)
SetLargeMapAdd(h) ==
    /\ pc[h] = "slm_add"
    /\ UNCHANGED <<data, host, left>>
    /\ \E k \in todo[h] :
         \/ /\ props' = props \cup {k}
            /\ todo' = [todo EXCEPT ![h] = @ \ {k}]
            /\ UNCHANGED <<pc, args, snap, cur, tx, returned>>
         \/ /\ Finish(h, "store")                            \* Add fails
            /\ UNCHANGED props

\* BeginTx, after the new properties are stored
SetLargeMapBegin(h) ==
    /\ pc[h] = "slm_add"
    /\ todo[h] = {}
    /\ UNCHANGED <<shared, left>>
    /\ \/ Finish(h, "tx")                                    \* BeginTx fails
       \/ /\ pc' = [pc EXCEPT ![h] = "slm_loop"]
          /\ todo' = [todo EXCEPT ![h] = DOMAIN args[h].m]
          /\ txn' = [txn EXCEPT ![h] = "open"]
          /\ UNCHANGED <<args, snap, cur, tx, ret, results>>

\* One write of the loops over owners and their properties, inside the
\* transaction, without a separator check
SetLargeMapStep(h) ==
    /\ pc[h] = "slm_loop"
    /\ UNCHANGED <<props, host, left>>
    /\ \E p \in todo[h] :
         \/ /\ TxWrite(h, CompositeKey(p[1], p[2]), Stored(args[h].m[p]))
            /\ todo' = [todo EXCEPT ![h] = @ \ {p}]
            /\ UNCHANGED <<pc, args, snap, cur, returned>>
         \/ Rollback(h, "store")                             \* the write fails

\* transaction.Commit()
SetLargeMapCommit(h) ==
    /\ pc[h] = "slm_loop"
    /\ todo[h] = {}
    /\ UNCHANGED <<props, host, left>>
    /\ \/ /\ data' = Apply(data, tx[h])
          /\ Return(h, "ok", EmptyMap, "committed")
       \/ /\ Return(h, "tx", EmptyMap, "failed")        \* Commit fails
          /\ UNCHANGED data

\* ------------------------------------------------------- DelKey, Del, Clear
\* DelKey is called
DelKeyCall(h, owner, key) ==
    /\ Start(h)
    /\ Enter(h, "delkey", [op |-> "DelKey", owner |-> owner, key |-> key])
    /\ UNCHANGED <<shared, todo, snap, cur, tx>>

\* DelKey that deletes every row of the owner, as Del does
DelKey_WholeOwner(h) ==
    /\ pc[h] = "delkey"
    /\ UNCHANGED <<props, host, left>>
    /\ data' = [x \in {c \in DOMAIN data :
                         \A k \in PropKeys : c # CompositeKey(args[h].owner, k)}
                  |-> data[x]]
    /\ Finish(h, "ok")

\* DelKey that also takes the key out of the property set
DelKey_DropsKey(h) ==
    /\ pc[h] = "delkey"
    /\ UNCHANGED <<host, left>>
    /\ data' = Without(data, CompositeKey(args[h].owner, args[h].key))
    /\ props' = props \ {args[h].key}
    /\ Finish(h, "ok")

\* DelKey: one KeyValue.Del; the key stays in the property set
DelKey(h) ==
    /\ pc[h] = "delkey"
    /\ UNCHANGED <<props, host, left>>
    /\ \/ /\ data' = Without(data, CompositeKey(args[h].owner, args[h].key))
          /\ Finish(h, "ok")
       \/ /\ Finish(h, "store")                              \* Del fails
          /\ UNCHANGED data

\* Del, up to the loop: read the property set
DelCall(h, owner) ==
    /\ Start(h)
    /\ UNCHANGED shared
    /\ \/ Fail(h, "store")                                 \* All() fails
       \/ /\ Enter(h, "del_loop", [op |-> "Del", owner |-> owner])
          /\ todo' = [todo EXCEPT ![h] = props]
          /\ UNCHANGED <<snap, cur, tx>>

\* One iteration of Del's loop: KeyValue.Del of owner + fieldSep + key,
\* each a statement of its own
DelStep(h) ==
    /\ pc[h] = "del_loop"
    /\ UNCHANGED <<props, host, left>>
    /\ \E k \in todo[h] :
         \/ /\ data' = Without(data, CompositeKey(args[h].owner, k))
            /\ todo' = [todo EXCEPT ![h] = @ \ {k}]
            /\ UNCHANGED <<pc, args, snap, cur, tx, returned>>
         \/ /\ Finish(h, "store")                            \* Del fails
            /\ UNCHANGED data

\* return nil
DelReturn(h) ==
    /\ pc[h] = "del_loop"
    /\ todo[h] = {}
    /\ Finish(h, "ok")
    /\ UNCHANGED <<shared, left>>

\* Clear, first statement: hm2.PropSet().Clear(), its error dropped
ClearProps(h) ==
    /\ Start(h)
    /\ props' \in {{}, props}
    /\ Enter(h, "clear_kv", [op |-> "Clear"])
    /\ UNCHANGED <<data, host, todo, snap, cur, tx>>

\* Clear, second statement: hm2.KeyValue().Clear()
ClearKV(h) ==
    /\ pc[h] = "clear_kv"
    /\ UNCHANGED <<props, host, left>>
    /\ \/ /\ data' = EmptyMap
          /\ Finish(h, "ok")
       \/ /\ Finish(h, "store")
          /\ UNCHANGED data

\* ------------------------------------------------------------------ GetMap
\* The lists of keys a GetMap call may be given: any order, repeats and the
\* empty list included
KeyLists == UNION {[1..n -> PropKeys] : n \in 0..MaxGetLen}

\* GetMap, up to the loop: make the results map, begin the transaction
GetMapCall(h, owner, keys) ==
    /\ Start(h)
    /\ UNCHANGED shared
    /\ \/ Fail(h, "tx")                                      \* BeginTx fails
       \/ /\ EnterTx(h, "gm_loop",
                     [op |-> "GetMap", owner |-> owner, keys |-> keys])
          /\ todo' = [todo EXCEPT ![h] = DOMAIN keys]
          /\ UNCHANGED <<snap, cur, tx>>

\* An iteration that leaves a key without a row out of the results and
\* goes on
GetMapStep_SkipsMissing(h) ==
    /\ pc[h] = "gm_loop"
    /\ todo[h] # {}
    /\ UNCHANGED <<shared, left>>
    /\ LET i == CHOOSE x \in todo[h] : \A y \in todo[h] : x <= y
           key == args[h].keys[i]
           s == Get(args[h].owner, key)
       IN  /\ results' = [results EXCEPT ![h] =
                            IF s.err = "none" THEN Put(@, key, s.val) ELSE @]
           /\ todo' = [todo EXCEPT ![h] = @ \ {i}]
           /\ UNCHANGED <<pc, args, snap, cur, tx, ret, txn>>

\* One iteration of GetMap's loop, the keys taken in the order of the list:
\* getWithTransaction of owner + fieldSep + key; an error (no row, or a
\* failed read) rolls back and returns the results so far with the error
GetMapStep(h) ==
    /\ pc[h] = "gm_loop"
    /\ todo[h] # {}
    /\ UNCHANGED <<shared, left>>
    /\ LET i == CHOOSE x \in todo[h] : \A y \in todo[h] : x <= y
           key == args[h].keys[i]
           s == Get(args[h].owner, key)
       IN  \/ Return(h, "store", results[h], "rolledback")   \* the read fails
           \/ /\ s.err # "none"
              /\ Return(h, s.err, results[h], "rolledback")
           \/ /\ s.err = "none"
              /\ results' = [results EXCEPT ![h] = Put(@, key, s.val)]
              /\ todo' = [todo EXCEPT ![h] = @ \ {i}]
              /\ UNCHANGED <<pc, args, snap, cur, tx, ret, txn>>

\* transaction.Commit(), its error not looked at; return results, nil
GetMapReturn(h) ==
    /\ pc[h] = "gm_loop"
    /\ todo[h] = {}
    /\ UNCHANGED <<shared, left>>
    /\ \/ Return(h, "ok", results[h], "committed")
       \/ Return(h, "ok", results[h], "failed")              \* Commit fails

\* ---------------------------------------- the plain KeyValue of the same name
\* A call on the plain KeyValue starts and returns in one step
PlainCall(h) ==
    /\ Start(h)
    /\ UNCHANGED <<props, rawUTF8, pc, args, todo, snap, cur, tx, returned>>

\* kv.Set(key, value): an upsert in the table named kvTable, which is
\* HashMap2's data only if the two names are the same
PlainSet(h, key, value) ==
    /\ PlainCall(h)
    /\ IF kvTable = table
       THEN /\ data' = Put(data, key, Stored(value))
            /\ UNCHANGED plain
       ELSE /\ plain' = IF plain.dropped
                        THEN plain
                        ELSE [plain EXCEPT !.rows = Put(@, key, Stored(value))]
            /\ UNCHANGED data

\* kv.Clear(): every row of the table named kvTable is deleted
PlainClear(h) ==
    /\ PlainCall(h)
    /\ IF kvTable = table
       THEN /\ data' = EmptyMap
            /\ UNCHANGED plain
       ELSE /\ plain' = [plain EXCEPT !.rows = EmptyMap]
            /\ UNCHANGED data

\* kv.Remove(): the table named kvTable is dropped
PlainRemove(h) ==
    /\ PlainCall(h)
    /\ IF kvTable = table
       THEN /\ data' = EmptyMap
            /\ UNCHANGED plain
       ELSE /\ plain' = [rows |-> EmptyMap, dropped |-> TRUE]
            /\ UNCHANGED data

\* ----------------------------------------------------------- specification
Step(h) ==
    \/ \E owner \in OwnerIds, key \in PropKeys, value \in Values :
           Set(h, owner, key, value)
    \/ \E owner \in OwnerIds, m \in Maps : SetMapCall(h, owner, m)
    \/ SetMapStep(h)
    \/ SetMapAdd(h)
    \/ SetMapCommit(h)
    \/ \E big \in LargeMaps : SetLargeMapCall(h, big)
    \/ SetLargeMapAdd(h)
    \/ SetLargeMapBegin(h)
    \/ SetLargeMapStep(h)
    \/ SetLargeMapCommit(h)
    \/ \E owner \in OwnerIds, key \in PropKeys : DelKeyCall(h, owner, key)
    \/ DelKey(h)
    \/ \E owner \in OwnerIds : DelCall(h, owner)
    \/ DelStep(h)
    \/ DelReturn(h)
    \/ ClearProps(h)
    \/ ClearKV(h)

\* One handle: every call returns before the next one starts
Next == Step(1)

Spec == Init /\ [][Next]_vars

\* Two handles on the same tables, their calls interleaved
InitConc ==
    /\ data = EmptyMap
    /\ props = {}
    /\ rawUTF8 \in BOOLEAN
    /\ pc = [h \in Handles |-> "idle"]
    /\ args = [h \in Handles |-> NoArgs]
    /\ todo = [h \in Handles |-> {}]
    /\ snap = [h \in Handles |-> {}]
    /\ cur = [h \in Handles |-> NoKey]
    /\ tx = [h \in Handles |-> EmptyMap]
    /\ ret = [h \in Handles |-> "none"]
    /\ left = MaxConcCalls
    /\ plain = NoTable
    /\ results = [h \in Handles |-> EmptyMap]
    /\ txn = [h \in Handles |-> "none"]

NextConc == \E h \in Handles : Step(h)

SpecConc == InitConc /\ [][NextConc]_vars

\* One handle that uses the checked write path and the deletions only
NextChecked ==
    \/ \E owner \in OwnerIds, key \in PropKeys, value \in Values :
           Set(1, owner, key, value)
    \/ \E owner \in OwnerIds, m \in Maps : SetMapCall(1, owner, m)
    \/ SetMapStep(1)
    \/ SetMapAdd(1)
    \/ SetMapCommit(1)
    \/ \E owner \in OwnerIds, key \in PropKeys : DelKeyCall(1, owner, key)
    \/ DelKey(1)
    \/ \E owner \in OwnerIds : DelCall(1, owner)
    \/ DelStep(1)
    \/ DelReturn(1)

SpecChecked == Init /\ [][NextChecked]_vars

\* One handle that uses the checked write path, the deletions and Clear
NextCheckedClear ==
    \/ \E owner \in OwnerIds, key \in PropKeys, value \in Values :
           Set(1, owner, key, value)
    \/ \E owner \in OwnerIds, m \in Maps : SetMapCall(1, owner, m)
    \/ SetMapStep(1)
    \/ SetMapAdd(1)
    \/ SetMapCommit(1)
    \/ \E owner \in OwnerIds, key \in PropKeys : DelKeyCall(1, owner, key)
    \/ DelKey(1)
    \/ \E owner \in OwnerIds : DelCall(1, owner)
    \/ DelStep(1)
    \/ DelReturn(1)
    \/ ClearProps(1)
    \/ ClearKV(1)

SpecCheckedClear == Init /\ [][NextCheckedClear]_vars

\* One handle on the checked write path, and a plain KeyValue built from
\* the same name on the same host
NextMix ==
    \/ \E owner \in OwnerIds, key \in PropKeys, value \in Values :
           Set(1, owner, key, value)
    \/ SetMapStep(1)
    \/ SetMapAdd(1)
    \/ SetMapCommit(1)
    \/ \E owner \in OwnerIds, key \in PropKeys : DelKeyCall(1, owner, key)
    \/ DelKey(1)
    \/ \E key \in PlainKeys, value \in Values : PlainSet(1, key, value)
    \/ PlainClear(1)
    \/ PlainRemove(1)

SpecMix == Init /\ [][NextMix]_vars

\* One handle that uses the calls that run in a transaction, SetMap,
\* SetLargeMap and GetMap, and DelKey
NextBatch ==
    \/ \E owner \in OwnerIds, key \in PropKeys, value \in Values :
           Set(1, owner, key, value)
    \/ \E owner \in OwnerIds, m \in Maps : SetMapCall(1, owner, m)
    \/ SetMapStep(1)
    \/ SetMapAdd(1)
    \/ SetMapCommit(1)
    \/ \E big \in LargeMaps : SetLargeMapCall(1, big)
    \/ SetLargeMapAdd(1)
    \/ SetLargeMapBegin(1)
    \/ SetLargeMapStep(1)
    \/ SetLargeMapCommit(1)
    \/ \E owner \in OwnerIds, key \in PropKeys : DelKeyCall(1, owner, key)
    \/ DelKey(1)
    \/ \E owner \in OwnerIds, keys \in KeyLists : GetMapCall(1, owner, keys)
    \/ GetMapStep(1)
    \/ GetMapReturn(1)

SpecBatch == Init /\ [][NextBatch]_vars

\* ------------------------------------------------------------------ claims
\* Handle h takes the step
StepBy(h) == pc'[h] # pc[h] \/ todo'[h] # todo[h] \/ tx'[h] # tx[h]

\* Handle h's call is the one that may change what Get(owner, key) returns
Touches(h, owner, key) ==
    \/ pc[h] = "sm_loop" /\ args[h].owner = owner /\ key \in DOMAIN args[h].m
    \/ pc[h] = "slm_loop" /\ <<owner, key>> \in DOMAIN args[h].m
    \/ pc[h] = "delkey" /\ args[h].owner = owner /\ args[h].key = key
    \/ pc[h] = "del_loop" /\ args[h].owner = owner
    \/ pc[h] = "clear_kv"

\* C1. Round trip: when Set / SetMap returns without error, owner and keys
\* hold no separator and Get(owner, key) returns exactly the value given,
\* without error; and the result of Get for a separator-free pair changes
\* only in a step of a write, DelKey, Del or Clear that touches that pair.
C1_RoundTrip ==
    [][/\ \A h \in Handles :
             (pc[h] = "sm_loop" /\ ret'[h] = "ok")
                 => \A owner \in OwnerIds, key \in PropKeys :
                      (args[h].owner = owner /\ key \in DOMAIN args[h].m)
                          => /\ ~Contains(owner)
                             /\ ~Contains(key)
                             /\ Get(owner, key)'
                                  = [err |-> "none", val |-> args[h].m[key]]
       /\ <<data, rawUTF8>>' # <<data, rawUTF8>>
             => \A owner \in OwnerIds, key \in PropKeys :
                  (/\ ~Contains(owner)
                   /\ ~Contains(key)
                   /\ Get(owner, key)' # Get(owner, key))
                      => \E h \in Handles : Touches(h, owner, key)
      ]_vars

\* A Set with encoding on has returned and Get gives the value back
C1_Witness ==
    /\ left = MaxCalls - 1
    /\ ~rawUTF8
    /\ ret[1] = "ok"
    /\ Get(<<"a">>, <<"p">>) = [err |-> "none", val |-> <<"v">>]

\* C2. SetMap is atomic on a validation failure: SetMap returns the
\* validation error only when owner or a key of m holds the separator, and
\* no step of a SetMap call that does not return success changes a row of
\* data, in whatever order the keys of m are visited: the rows after the
\* failed call are the rows before it.
C2_ValidationFailureAtomic ==
    [][\A h \in Handles :
          (pc[h] \in {"sm_loop", "sm_add"} /\ StepBy(h))
              => /\ ret'[h] # "ok" => data' = data
                 /\ ret'[h] = "validation"
                      => \/ Contains(args[h].owner)
                         \/ \E k \in DOMAIN args[h].m : Contains(k)
      ]_vars

\* SetMap failed validation after a valid key of m was added to the
\* property set and written in the transaction: no row is in data
C2_Witness ==
    /\ left = MaxCalls - 1
    /\ ret[1] = "validation"
    /\ props # {}
    /\ data = EmptyMap

\* The property keys under which the composite row c may have been written
PropertyKeysOf(c) ==
    {k \in PropKeys : \E o \in OwnerIds : CompositeKey(o, k) = c}

\* C3. The property set is a superset of the live property keys: in every
\* reachable state, the intermediate states of a call under way included,
\* the property key of every row committed in data is in the property set.
C3_PropertyIndexSuperset ==
    \A c \in DOMAIN data : \E k \in PropertyKeysOf(c) : k \in props

\* The composite keys the SetMap or SetLargeMap call of handle h writes
WriteKeys(h) ==
    IF args[h].op = "SetMap"
    THEN {CompositeKey(args[h].owner, k) : k \in DOMAIN args[h].m}
    ELSE {CompositeKey(p[1], p[2]) : p \in DOMAIN args[h].m}

\* The texts the call of handle h writes under composite key c
WriteTexts(h, c) ==
    IF args[h].op = "SetMap"
    THEN {Stored(args[h].m[k]) :
            k \in {x \in DOMAIN args[h].m : CompositeKey(args[h].owner, x) = c}}
    ELSE {Stored(args[h].m[p]) :
            p \in {x \in DOMAIN args[h].m : CompositeKey(x[1], x[2]) = c}}

\* C4. Group atomicity: a step of a SetMap or SetLargeMap call either
\* leaves the committed rows as they are, or it is the call's successful
\* commit and puts every write of the call in data at once, and nothing
\* else; a call that fails on a write or at commit changes no row.  No
\* state, hence no other handle, sees a proper part of the call's writes.
C4_GroupAtomicity ==
    [][\A h \in Handles :
          (pc[h] \in {"sm_loop", "sm_add", "slm_add", "slm_loop"} /\ StepBy(h))
              => \/ data' = data
                 \/ /\ ret'[h] = "ok"
                    /\ DOMAIN data' = (DOMAIN data) \cup WriteKeys(h)
                    /\ \A c \in WriteKeys(h) : data'[c] \in WriteTexts(h, c)
                    /\ \A c \in (DOMAIN data) \ WriteKeys(h) : data'[c] = data[c]
      ]_vars

\* Handle 1 has issued one of the two writes of its SetMap, handle 2 has
\* finished a call in between, and data holds neither write
C4_Witness ==
    /\ pc[1] = "sm_loop"
    /\ Cardinality(DOMAIN args[1].m) = 2
    /\ Cardinality(DOMAIN tx[1]) = 1
    /\ pc[2] = "idle"
    /\ ret[2] = "ok"
    /\ \A c \in WriteKeys(1) : c \notin DOMAIN data

\* C5. The property set never shrinks outside Clear: every step, of any
\* call of any handle, successful or failed, other than the first statement
\* of Clear keeps every name that is in the property set.
C5_PropertyIndexMonotonic ==
    [][\/ \E h \in Handles : pc[h] = "idle" /\ pc'[h] = "clear_kv"
       \/ props \subseteq props'
      ]_vars

\* Del has deleted the row of key p, the last one with that key, and p is
\* still in the property set
C5_Witness ==
    /\ left = 0
    /\ pc[1] = "del_loop"
    /\ props = {<<"p">>, <<"q">>}
    /\ DOMAIN data = {<<"a", fieldSep, "q">>}

\* C6 as claimed. DelKey(owner, key) removes exactly one pair: when it
\* succeeds, Has(owner, key) is false without error, AllEncounteredKeys
\* still contains key, and every other pair has the Get result it had.
C6_DelKeyExactlyOnePair ==
    [][\A h \in Handles, owner \in OwnerIds, key \in PropKeys :
          (/\ pc[h] = "delkey"
           /\ ret'[h] = "ok"
           /\ args[h].owner = owner
           /\ args[h].key = key)
              => /\ Has(owner, key)' = [found |-> FALSE, err |-> "none"]
                 /\ key \in AllEncounteredKeys => key \in AllEncounteredKeys'
                 /\ \A o \in OwnerIds, k \in PropKeys :
                       <<o, k>> # <<owner, key>> => Get(o, k)' = Get(o, k)
      ]_vars

\* C6, amended. DelKey(owner, key) removes exactly one row: when it
\* succeeds, Has(owner, key) is false without error, AllEncounteredKeys
\* still contains key, and every pair whose composite key is not
\* owner + fieldSep + key has the Get result it had.
C6_DelKeyExactlyOneRow ==
    [][\A h \in Handles, owner \in OwnerIds, key \in PropKeys :
          (/\ pc[h] = "delkey"
           /\ ret'[h] = "ok"
           /\ args[h].owner = owner
           /\ args[h].key = key)
              => /\ Has(owner, key)' = [found |-> FALSE, err |-> "none"]
                 /\ key \in AllEncounteredKeys => key \in AllEncounteredKeys'
                 /\ \A o \in OwnerIds, k \in PropKeys :
                       CompositeKey(o, k) # CompositeKey(owner, key)
                           => Get(o, k)' = Get(o, k)
      ]_vars

\* Three calls, the last one a successful DelKey("a", "p") after
\* SetMap("a", {p, q}) and Set("b", "p"): the pair of the same owner with
\* another key and the pair of another owner with the same key are there,
\* and p is still an encountered key
C6_Witness ==
    /\ left = MaxCalls - 3
    /\ pc[1] = "idle"
    /\ ret[1] = "ok"
    /\ DOMAIN data = {<<"a", fieldSep, "q">>, <<"b", fieldSep, "p">>}
    /\ Get(<<"a">>, <<"q">>).val = <<"v">>
    /\ Get(<<"b">>, <<"p">>).val = <<"v">>
    /\ ~Has(<<"a">>, <<"p">>).found
    /\ AllEncounteredKeys = {<<"p">>, <<"q">>}

\* Owner holds a row under key
Holds(owner, key) == CompositeKey(owner, key) \in DOMAIN data

\* C7. Count() is the number of distinct owners that hold at least one
\* property, which is len(All()), not the number of rows, in every state
\* reached by Set, SetMap, DelKey and Del.
C7_CountDistinctOwners ==
    /\ Count = Cardinality({o \in OwnerIds : \E k \in PropKeys : Holds(o, k)})
    /\ Count = Cardinality(All)

\* Two owners hold three rows
C7_Witness ==
    /\ Count = 2
    /\ Cardinality(DOMAIN data) = 3
    /\ pc[1] = "idle"

\* C8. Keys(owner) is exactly the set of property names under which owner
\* holds a row, whatever value is stored there.
C8_KeysExact ==
    \A o \in OwnerIds : Keys(o) = {k \in PropKeys : Holds(o, k)}

\* C9. Has(owner, key) is (true, no error) exactly when a row of
\* (owner, key) is in data, whatever its value, and (false, no error)
\* exactly when there is none.
C9_HasIffRow ==
    \A o \in OwnerIds, k \in PropKeys :
        Has(o, k) = [found |-> Holds(o, k), err |-> "none"]

\* C10. Exists(owner) is true exactly when owner holds at least one
\* property, that is exactly when owner is in All().
C10_ExistsIffInAll ==
    \A o \in OwnerIds :
        /\ Exists(o) <=> \E k \in PropKeys : Holds(o, k)
        /\ Exists(o) <=> o \in All

\* C11. Get on a pair without a row in data (never written, deleted by
\* DelKey or Del, removed by Clear) returns the not-found error, never an
\* empty value without error; a pair stored with the empty string is
\* returned as an empty value without error, so the two are told apart.
\* Get reads data only: the first part is checked before and after every
\* step that changes data, the empty table of the start included.
C11_GetNotFound ==
    [][/\ data' # data
             => \A o \in OwnerIds, k \in PropKeys :
                   /\ Get(o, k).err = IF Holds(o, k) THEN "none" ELSE "notfound"
                   /\ Get(o, k)'.err = IF Holds(o, k)' THEN "none" ELSE "notfound"
       /\ \A h \in Handles :
             ret'[h] = "ok"
                 => \A o \in OwnerIds, k \in PropKeys :
                       /\ (/\ pc[h] = "sm_loop"
                           /\ args[h].owner = o
                           /\ k \in DOMAIN args[h].m
                           /\ args[h].m[k] = <<>>)
                              => Get(o, k)' = [err |-> "none", val |-> <<>>]
                       /\ (/\ pc[h] = "delkey"
                           /\ args[h].owner = o
                           /\ args[h].key = k)
                              => Get(o, k)'.err = "notfound"
                       /\ pc[h] = "clear_kv" => Get(o, k)'.err = "notfound"
      ]_vars

\* After SetMap("a", {p: "", q: _}) and DelKey("a", "q"), with encoding on:
\* Get("a", "p") is the empty value without error, Get("a", "q") is not found
C11_Witness ==
    /\ left = MaxCalls - 2
    /\ ~rawUTF8
    /\ pc[1] = "idle"
    /\ ret[1] = "ok"
    /\ props = {<<"p">>, <<"q">>}
    /\ Get(<<"a">>, <<"p">>) = [err |-> "none", val |-> <<>>]
    /\ Get(<<"a">>, <<"q">>).err = "notfound"

\* Every pair of SetMap(owner, m) is already stored as the call stores it,
\* and its key is in the property set
Settled(owner, m) ==
    \A k \in DOMAIN m :
        /\ k \in props
        /\ Holds(owner, k)
        /\ data[CompositeKey(owner, k)] = Stored(m[k])

\* C12. Set is idempotent: a successful Set(owner, key, value) leaves the
\* pair stored with key in the property set, and a Set(owner, key, value)
\* called in such a state (the same triple a second time) changes nothing
\* in any of its steps: data, the property set, every Get result and All()
\* stay as the first call left them.  data and the property set hold each
\* composite key and each property name once.
C12_SetIdempotent ==
    [][\A h \in Handles, owner \in OwnerIds, key \in PropKeys, value \in Values :
          (/\ pc[h] \in {"sm_loop", "sm_add"}
           /\ StepBy(h)
           /\ args[h].owner = owner
           /\ args[h].m = [x \in {key} |-> value])
              => /\ ret'[h] = "ok" => Settled(owner, [x \in {key} |-> value])'
                 /\ Settled(owner, [x \in {key} |-> value])
                       => /\ data' = data
                          /\ props' = props
                          /\ AllEncounteredKeys' = AllEncounteredKeys
                          /\ All' = All
                          /\ \A o \in OwnerIds, k \in PropKeys :
                                Get(o, k)' = Get(o, k)
      ]_vars

\* The second Set("a", "p", "v") is about to commit: the row and the key
\* were there when it started, and its transaction holds the same text
C12_Witness ==
    /\ left = MaxCalls - 2
    /\ pc[1] = "sm_loop"
    /\ todo[1] = {}
    /\ args[1].owner = <<"a">>
    /\ args[1].m = [x \in {<<"p">>} |-> <<"v">>]
    /\ snap[1] = {<<"p">>}
    /\ Settled(<<"a">>, args[1].m)
    /\ tx[1] = [x \in {<<"a", fieldSep, "p">>} |-> Stored(<<"v">>)]
    /\ All = {<<"a">>}

\* C13. SetMap(owner, m) is an upsert with a frame: the step in which it
\* returns success leaves Get(owner, k) = m[k] for every key k of m,
\* whatever was stored there, and the Get result of every pair of another
\* owner or of a key outside m as it was; no earlier step of the call
\* changes a Get result, so these are the results from before the call.
C13_SetMapUpsertFrame ==
    [][\A h \in Handles, owner \in OwnerIds :
          (/\ pc[h] \in {"sm_loop", "sm_add"}
           /\ StepBy(h)
           /\ args[h].owner = owner)
              => \A o \in OwnerIds, k \in PropKeys :
                    IF ret'[h] = "ok" /\ o = owner /\ k \in DOMAIN args[h].m
                    THEN Get(o, k)' = [err |-> "none", val |-> args[h].m[k]]
                    ELSE Get(o, k)' = Get(o, k)
      ]_vars

\* SetMap("a", {p: "v"}) is about to commit over a row of ("a", "p") that
\* holds another value, while ("a", "q") and ("b", "p") hold rows too
C13_Witness ==
    /\ left = 0
    /\ pc[1] = "sm_loop"
    /\ todo[1] = {}
    /\ args[1].owner = <<"a">>
    /\ tx[1] = [x \in {<<"a", fieldSep, "p">>} |-> Stored(<<"v">>)]
    /\ Get(<<"a">>, <<"p">>) = [err |-> "none", val |-> <<>>]
    /\ Get(<<"a">>, <<"q">>).err = "none"
    /\ Get(<<"b">>, <<"p">>).err = "none"

\* The elements of sequence s
Range(s) == {s[i] : i \in DOMAIN s}

\* C14. AllWhere(key, value) lists exactly the owners of All() whose
\* Get(owner, key) succeeds with value, each owner once: an owner without a
\* row under key, or with another value there, is not listed.
C14_AllWhereExact ==
    \A key \in PropKeys, value \in Values :
        LET foundOwners == AllWhere(key, value)
        IN  /\ Range(foundOwners)
                 = {o \in All : Get(o, key) = [err |-> "none", val |-> value]}
            /\ Len(foundOwners) = Cardinality(Range(foundOwners))
            /\ \A o \in OwnerIds :
                  (~Holds(o, key) \/ Get(o, key).val # value)
                      => o \notin Range(foundOwners)

\* "a" holds p = "v" and q = "v", "b" holds p = "" and no q: each AllWhere
\* lists the one owner that matches, and none when no owner does
C14_Witness ==
    /\ pc[1] = "idle"
    /\ All = {<<"a">>, <<"b">>}
    /\ AllWhere(<<"p">>, <<"v">>) = << <<"a">> >>
    /\ AllWhere(<<"p">>, <<>>) = << <<"b">> >>
    /\ AllWhere(<<"q">>, <<"v">>) = << <<"a">> >>
    /\ AllWhere(<<"q">>, <<>>) = <<>>
    /\ ~Holds(<<"b">>, <<"q">>)

\* C15. Del(owner): when Del returns without error no row of owner is left
\* in data, for any key (Exists(owner) is false, Keys(owner) is empty,
\* owner is not in All()); no step of the call changes a row of another
\* owner or the property set; and deleting a row that is not there changes
\* nothing and is no error.
C15_DelRemovesOwner ==
    [][\A h \in Handles, owner \in OwnerIds :
          (/\ pc[h] = "del_loop"
           /\ StepBy(h)
           /\ args[h].owner = owner)
              => /\ props' = props
                 /\ \A o \in OwnerIds \ {owner}, k \in PropKeys :
                       Get(o, k)' = Get(o, k)
                 /\ (\A k \in todo[h] : ~Holds(owner, k)) => data' = data
                 /\ ret'[h] = "ok"
                       => /\ \A k \in PropKeys : ~Holds(owner, k)'
                          /\ ~Exists(owner)'
                          /\ Keys(owner)' = {}
                          /\ owner \notin All'
      ]_vars

\* C16. Clear(): whenever Clear returns without error, data and the
\* property set are both empty (All() and AllEncounteredKeys() are empty,
\* Count() is 0), and the handle is ready for the next call.
C16_ClearEmptiesBoth ==
    [][\A h \in Handles :
          (pc[h] = "clear_kv" /\ ret'[h] = "ok")
              => /\ data' = EmptyMap
                 /\ props' = {}
                 /\ All' = {}
                 /\ AllEncounteredKeys' = {}
                 /\ Count' = 0
                 /\ pc'[h] = "idle"
      ]_vars

\* C17. The last committed write wins across handles: with the calls of
\* two handles on the same tables interleaved, the step in which a Set /
\* SetMap of one handle commits leaves Get(owner, key) at that call's
\* value for each of its keys, whatever the other handle wrote or committed
\* before, and no other step of a Set / SetMap call of either handle
\* changes a Get result.  After two concurrent Set calls on one pair have
\* returned without error, Get therefore gives the value of the one that
\* committed last, and never a third value.
C17_LastCommitWins ==
    [][\A h \in Handles, owner \in OwnerIds :
          (/\ pc[h] \in {"sm_loop", "sm_add"}
           /\ StepBy(h)
           /\ args[h].owner = owner)
              => IF ret'[h] = "ok"
                 THEN \A k \in PropKeys :
                         k \in DOMAIN args[h].m
                             => Get(owner, k)'
                                  = [err |-> "none", val |-> args[h].m[k]]
                 ELSE data' = data
      ]_vars

\* Handle 1 has committed "" for ("a", "p"); handle 2, whose Set of "v" for
\* the same pair started before handle 1 added p to the property set, is
\* about to commit
C17_Witness ==
    /\ left = 0
    /\ pc[1] = "idle"
    /\ ret[1] = "ok"
    /\ Get(<<"a">>, <<"p">>) = [err |-> "none", val |-> <<>>]
    /\ pc[2] = "sm_loop"
    /\ todo[2] = {}
    /\ snap[2] = {}
    /\ args[2].owner = <<"a">>
    /\ args[2].m = [x \in {<<"p">>} |-> <<"v">>]
    /\ tx[2] = [x \in {<<"a", fieldSep, "p">>} |-> Stored(<<"v">>)]

\* C18. Table-name isolation: the HashMap2 built from a base name and the
\* plain KeyValue built from the same base name address different tables
\* (neither HashMap2's data table nor its property table is the
\* KeyValue's), and a Set, Clear or Remove on that KeyValue leaves every
\* Get result of the HashMap2, and its property set, as they were.
C18_TableIsolation ==
    [][/\ kvTable # table
       /\ kvTable # seenPropTable
       /\ plain' # plain
             => /\ \A o \in OwnerIds, k \in PropKeys : Get(o, k)' = Get(o, k)
                /\ data' = data
                /\ props' = props
       /\ (pc[1] = "idle" /\ pc'[1] = "idle") => data' = data
      ]_vars

\* As in TestHash2KvMix: after h.Set("a", "p", "v"), a kv.Set under the
\* text of the same composite key and kv.Remove(), Get("a", "p") is "v"
C18_Witness ==
    /\ left = MaxCalls - 3
    /\ plain.dropped
    /\ pc[1] = "idle"
    /\ Get(<<"a">>, <<"p">>) = [err |-> "none", val |-> <<"v">>]

\* The number of separators in s
Separators(s) == Cardinality({i \in 1..Len(s) : s[i] = fieldSep})

\* The (owner, key) pairs whose composite key is c
PairsOf(c) == {p \in OwnerIds \X PropKeys : CompositeKey(p[1], p[2]) = c}

\* In data every composite key holds one separator and is the key of one
\* pair, whose owner and key are its two sides; no property name holds the
\* separator
OneSeparator ==
    /\ \A c \in DOMAIN data :
          /\ Separators(c) = 1
          /\ PairsOf(c) = {<<SubSeq(c, 1, Index(c)),
                             SubSeq(c, Index(c) + 2, Len(c))>>}
    /\ \A k \in props : Separators(k) = 0

\* C19 as claimed. Set and SetMap reject with an error every call whose
\* owner or any key holds the separator, so in every state reached by Set,
\* SetMap, DelKey, Del and Clear each composite key of data holds exactly
\* one separator and splits back to the one (owner, key) that wrote it, and
\* no name of the property set holds the separator.
C19_RejectsEverySeparator ==
    [][/\ \A h \in Handles :
             (pc[h] \in {"sm_loop", "sm_add"} /\ ret'[h] = "ok")
                 => /\ Separators(args[h].owner) = 0
                    /\ \A k \in DOMAIN args[h].m : Separators(k) = 0
       /\ OneSeparator'
      ]_vars

\* C19, amended. Set and SetMap reject with an error every call that has a
\* key to write and whose owner or any key holds the separator (SetMap of
\* an empty map validates nothing: it returns without error for any owner,
\* and writes nothing), so in every state reached by Set, SetMap, DelKey,
\* Del and Clear each composite key of data holds exactly one separator and
\* splits back to the one (owner, key) that wrote it, and no name of the
\* property set holds the separator.
C19_RejectsWrittenSeparator ==
    [][/\ \A h \in Handles :
             (pc[h] \in {"sm_loop", "sm_add"} /\ ret'[h] = "ok")
                 => \A k \in DOMAIN args[h].m :
                       /\ Separators(args[h].owner) = 0
                       /\ Separators(k) = 0
       /\ \A h \in Handles :
             (pc[h] = "sm_loop" /\ ret'[h] = "ok" /\ args[h].m = EmptyMap)
                 => data' = data /\ props' = props
       /\ OneSeparator'
      ]_vars

\* Two pairs are stored and the third call, with a separator in its owner
\* or key, has been rejected
C19_Witness ==
    /\ left = 0
    /\ pc[1] = "idle"
    /\ ret[1] = "validation"
    /\ Cardinality(DOMAIN data) = 2
    /\ props # {}
    /\ OneSeparator

\* C20. Index/data asymmetry on rollback: no step of a SetMap call that
\* does not commit changes data, and the step in which the call fails takes
\* nothing back from the property set: the set holds everything it held
\* when the call started, and every name added since is a key of m without
\* separator that the loop had taken up before the failure.
C20_IndexNotRolledBack ==
    [][\A h \in Handles :
          (pc[h] \in {"sm_loop", "sm_add"} /\ StepBy(h) /\ ret'[h] # "ok")
              => /\ data' = data
                 /\ props \subseteq props'
                 /\ ret'[h] # "none"
                       => /\ snap[h] \subseteq props'
                          /\ \A k \in props' \ snap[h] :
                                /\ k \in DOMAIN args[h].m
                                /\ Separators(k) = 0
                                /\ k \in ((DOMAIN args[h].m) \ todo[h])
                                           \cup {cur[h]} \cup (props' \ props)
      ]_vars

\* A SetMap of two new keys has failed at Commit: both names are in the
\* property set and data holds no row
C20_Witness ==
    /\ left = MaxCalls - 1
    /\ pc[1] = "idle"
    /\ ret[1] = "tx"
    /\ props = {<<"p">>, <<"q">>}
    /\ data = EmptyMap

\* The property keys that occur in the map of the SetLargeMap call of h
LargeKeysOf(h) == {p[2] : p \in DOMAIN args[h].m}

\* No owner of the map of the SetLargeMap call of h holds a row
BrandNew(h) ==
    \A p \in DOMAIN args[h].m : \A k \in PropKeys : ~Holds(p[1], k)

\* The steps of a SetLargeMap call of handle h, but for what Get returns
\* after its commit: the property set only grows, by keys of the map, and
\* only before the transaction begins; a call that does not commit leaves
\* data as it is; at the commit every key of the map is in the property set
LargeMapSteps(h) ==
    /\ props \subseteq props'
    /\ props' \subseteq props \cup LargeKeysOf(h)
    /\ pc[h] = "slm_loop" => props' = props /\ LargeKeysOf(h) \subseteq props
    /\ ret'[h] # "ok" => data' = data

\* C21 as claimed. SetLargeMap(M) on owners not yet present and without a
\* duplicate (owner, key) pair: every addition to the property set happens
\* before the transaction begins; after it returns without error
\* Get(o, k) = M[o][k] for every triple of M, and the property set is what
\* it was united with the keys of M; if it fails on a write no row of M is
\* in data.
C21_LargeMapEveryTriple ==
    [][\A h \in Handles :
          (pc[h] \in {"slm_add", "slm_loop"} /\ StepBy(h))
              => /\ LargeMapSteps(h)
                 /\ (ret'[h] = "ok" /\ BrandNew(h))
                       => \A p \in DOMAIN args[h].m :
                             Get(p[1], p[2])'
                               = [err |-> "none", val |-> args[h].m[p]]
      ]_vars

\* C21, amended. As claimed, with Get(o, k) = M[o][k] after a successful
\* return for every triple of M whose composite key o + fieldSep + k is
\* the composite key of no other triple of M (two pairs of M that differ
\* but share a composite key are written to one row).
C21_LargeMapDistinctRows ==
    [][\A h \in Handles :
          (pc[h] \in {"slm_add", "slm_loop"} /\ StepBy(h))
              => /\ LargeMapSteps(h)
                 /\ (ret'[h] = "ok" /\ BrandNew(h))
                       => \A p \in DOMAIN args[h].m :
                             (\A q \in DOMAIN args[h].m :
                                 CompositeKey(q[1], q[2])
                                   = CompositeKey(p[1], p[2]) => q = p)
                                => Get(p[1], p[2])'
                                     = [err |-> "none", val |-> args[h].m[p]]
      ]_vars

\* One call, a SetLargeMap of "p" for owner "a" and for the owner made of
\* "a" and the separator, has returned
\* without error: both rows are in data and p is in the property set
C21_Witness ==
    /\ left = MaxCalls - 1
    /\ pc[1] = "idle"
    /\ ret[1] = "ok"
    /\ DOMAIN data = {<<"a", fieldSep, "p">>, <<"a", fieldSep, fieldSep, "p">>}
    /\ props = {<<"p">>}

\* What is left of c when it is cut before its first separator: one text,
\* or none when c holds no separator
FirstCut(c) ==
    {SubSeq(c, 1, i - 1) :
        i \in {j \in 1..Len(c) :
                 c[j] = fieldSep /\ \A l \in 1..(j - 1) : c[l] # fieldSep}}

\* C22. All() is exactly the set of texts got by cutting each composite
\* key of data before its first separator, each once, and Count() is their
\* number; so an owner that holds the separator, written by SetLargeMap, is
\* listed under the text before its first separator and never under its
\* own name.
C22_AllFirstSeparator ==
    /\ All = UNION {FirstCut(c) : c \in DOMAIN data}
    /\ Count = Cardinality(UNION {FirstCut(c) : c \in DOMAIN data})
    /\ \A o \in OwnerIds, k \in PropKeys :
          (Holds(o, k) /\ Separators(o) > 0)
              => /\ o \notin All
                 /\ FirstCut(o) \subseteq All

\* SetLargeMap has written one row, for the owner made of "a" and the
\* separator, under a key that starts with the separator: All() is ["a"]
C22_Witness ==
    /\ pc[1] = "idle"
    /\ DOMAIN data = {<<"a", fieldSep, fieldSep, fieldSep, "p">>}
    /\ \E k \in PropKeys : Holds(<<"a", fieldSep>>, k)
    /\ \A k \in PropKeys : ~Holds(<<"a">>, k)
    /\ All = {<<"a">>}
    /\ Count = 1

\* C23. GetMap(owner, keys) is all-or-error: when it returns without error
\* every requested key has a row for owner and the results map gives each
\* requested key its value; it returns the not-found error only for a key
\* without a row; when it returns an error the results hold the values
\* read before the failure and nothing else; and no step of it writes to
\* data or to the property set.
C23_GetMapAllOrError ==
    [][\A h \in Handles, owner \in OwnerIds :
          (pc[h] = "gm_loop" /\ StepBy(h) /\ args[h].owner = owner)
              => LET keys == args[h].keys
                     read == {keys[i] : i \in (DOMAIN keys) \ todo[h]}
                 IN  /\ data' = data
                     /\ props' = props
                     /\ ret'[h] = "ok"
                           => /\ \A i \in DOMAIN keys : Holds(owner, keys[i])
                              /\ results'[h]
                                   = [k \in Range(keys) |-> Get(owner, k).val]
                     /\ ret'[h] = "notfound"
                           => \E i \in todo[h] : ~Holds(owner, keys[i])
                     /\ ret'[h] \notin {"ok", "none"}
                           => results'[h] = [k \in read |-> Get(owner, k).val]
      ]_vars

\* GetMap("a", [q, p]) has returned, without error, the value of p and
\* the empty value of q
C23_Witness ==
    /\ left = MaxCalls - 2
    /\ pc[1] = "idle"
    /\ ret[1] = "ok"
    /\ results[1] = [k \in {<<"p">>, <<"q">>} |->
                        IF k = <<"p">> THEN <<"v">> ELSE <<>>]

\* The failure of the one read of the row of (owner, key)
RowFails(owner, key) == [rows |-> {CompositeKey(owner, key)}, list |-> FALSE]

\* C24. Failures of the backing store are propagated: when the read of a
\* row fails with an error other than not-found during Keys(owner), during
\* an Exists(owner) that finds no other key of owner, or during
\* AllWhere(key, value) for an owner All() lists, the query returns an
\* error.
C24_ReadErrorsPropagated ==
    /\ \A owner \in OwnerIds, key \in props :
          /\ KeysRead(owner, RowFails(owner, key)).err # "none"
          /\ (\A k \in props \ {key} : ~Has(owner, k).found)
                => ExistsRead(owner, RowFails(owner, key)).err # "none"
    /\ \A owner \in All, key \in PropKeys, value \in Values :
          AllWhereRead(key, value, RowFails(owner, key)).err # "none"

\* Owner "a" has the one row a%p; with the read of that row failing,
\* Exists("a") answers false, Keys("a") and AllWhere(p, v) answer with
\* nothing, all three without error
C24_Witness ==
    /\ DOMAIN data = {<<"a", fieldSep, "p">>}
    /\ Get(<<"a">>, <<"p">>).val = <<"v">>
    /\ props = {<<"p">>}
    /\ ExistsRead(<<"a">>, RowFails(<<"a">>, <<"p">>))
          = [found |-> FALSE, err |-> "none"]
    /\ KeysRead(<<"a">>, RowFails(<<"a">>, <<"p">>))
          = [keys |-> {}, err |-> "none"]
    /\ AllWhereRead(<<"p">>, <<"v">>, RowFails(<<"a">>, <<"p">>))
          = [owners |-> {}, err |-> "none"]

\* The ways a transaction is ended
Ended == {"committed", "failed", "rolledback"}

\* C25. Transaction discipline of SetMap, SetLargeMap and GetMap: a
\* transaction is ended only when it is open, so once; a call that returns
\* leaves no transaction open; a call that returns an error from inside
\* its transaction has rolled it back, or its Commit failed; and a call
\* that returns without error has committed its transaction: it reports
\* no success when its Commit failed.
C25_TransactionDiscipline ==
    [][\A h \in Handles :
          /\ (txn'[h] # txn[h] /\ txn'[h] \in Ended) => txn[h] = "open"
          /\ pc'[h] = "idle" => txn'[h] # "open"
          /\ (txn[h] = "open" /\ ret'[h] \notin {"ok", "none"})
                => txn'[h] \in {"rolledback", "failed"}
          /\ (txn[h] = "open" /\ ret'[h] = "ok") => txn'[h] = "committed"
      ]_vars

\* GetMap("a", [p]) has returned the value of p without error and the
\* Commit of its transaction had failed
C25_Witness ==
    /\ left = MaxCalls - 2
    /\ pc[1] = "idle"
    /\ ret[1] = "ok"
    /\ txn[1] = "failed"
    /\ results[1] = [k \in {<<"p">>} |-> <<"v">>]

====
